---- MODULE Spec2Model ----
(***************************************************************************)
(* A state-machine model of the CDCL solver core of src/CDCL.c: the        *)
(* assignment table, the clause store, the trail, the watched-literal      *)
(* propagator, the decision procedure and DPLL-style conflict repair.      *)
(***************************************************************************)
EXTENDS Integers, Sequences, FiniteSets, TLC

VARIABLES
  input,           \* the DIMACS file handed to CDCL_init
  num_vars,        \* model_size_t num_vars
  model,           \* ass_t* model: one record per internal literal 0..2V-1
  cnf,             \* cnf_t cnf: the stored (width >= 2) clauses
  learned_cnf,     \* mutable_t learned_cnf: pointers to learned clauses
  learned_clause,  \* the local clause_t of CDCL_repair_conflict (a stack slot)
  trail,           \* trail_t trail: sequence, head, tail (as offsets)
  dec_level,       \* dec_level_t dec_level
  state,           \* state_t state, and the terminal reports
  num_conflicts,   \* statistics counters
  num_decisions,
  num_unit_props,
  log,             \* the events of the run, in order (the DEBUG_MSG trace)
  conv             \* last literal conversion performed (conversion harness)

vars == <<input, num_vars, model, cnf, learned_cnf, learned_clause, trail,
          dec_level, state, num_conflicts, num_decisions, num_unit_props,
          log, conv>>

----------------------------------------------------------------------------
(* Macros of the source *)

UNSAT == 0
SAT == 1
POSITIVE == 1
NEGATIVE == -1
DEC_ASS == 0
PROP_ASS == 1
CON_ASS == 2
DECEASED == 1
ACTIVE == 2
PENDING == 3
AVAILABLE == 4

\* unsigned long, narrowed to 16 bits so that the arithmetic stays inside the
\* checker's integers; all unsigned arithmetic is taken modulo ULONG_MAX + 1
ULONG_MAX == 65535
DEC_MAX == ULONG_MAX
NULL_DEC_LEVEL == ULONG_MAX - 1
WordMod == ULONG_MAX + 1

USub(a, b) == (a - b + WordMod) % WordMod

\* pointers to clauses: into cnf.clauses, to the stack slot of
\* CDCL_repair_conflict, or NULL
NULL == [region |-> "null", idx |-> 0]
CnfPtr(i) == [region |-> "cnf", idx |-> i]
StackPtr == [region |-> "stack", idx |-> 0]

\* contents of memory that no code has written yet and that no code reads
\* before writing it (trail slots, ass_type, the literals of a fresh clause)
Unwritten == -1

----------------------------------------------------------------------------
(* Literals *)

Lits == 0 .. (2 * num_vars - 1)

DIMACS_to_lit(value) ==
  ((IF value < 0 THEN -1 ELSE 1) * value) - 1
    + ((IF value < 0 THEN 1 ELSE 0) * num_vars)

lit_to_DIMACS(lit) ==
  ((lit % num_vars) + 1) * (IF lit < num_vars THEN 1 ELSE -1)

\* get_comp_lit without the test of the literal's half of the table
get_comp_lit_one_way(lit) == lit + num_vars

get_comp_lit(lit) ==
  lit + ((IF lit < num_vars THEN 1 ELSE -1) * num_vars)

----------------------------------------------------------------------------
(* Clauses and mutables *)

clause_init(width) == [lits |-> [k \in 0 .. (width - 1) |-> Unwritten], width |-> width]

mutable_init == [size |-> 1, used |-> 0, data |-> <<>>]

\* TRUE when the push has to realloc the backing array
mutable_full(mutable) == mutable.used = mutable.size

mutable_push(mutable, datum) ==
  IF mutable.used = mutable.size
  THEN [size |-> 2 * mutable.size, used |-> mutable.used + 1,
        data |-> Append(mutable.data, datum)]
  ELSE [mutable EXCEPT !.used = @ + 1, !.data = Append(@, datum)]

\* the clause a pointer refers to; a pointer to the stack slot is read as the
\* slot's present contents
Deref(s, ptr) ==
  IF ptr.region = "cnf" THEN s.cnf.clauses[ptr.idx] ELSE s.learned_clause

StoreLits(s, ptr, lits) ==
  IF ptr.region = "cnf"
  THEN [s EXCEPT !.cnf.clauses[ptr.idx].lits = lits]
  ELSE [s EXCEPT !.learned_clause.lits = lits]

SwapLits(lits, i, j) == [lits EXCEPT ![i] = lits[j], ![j] = lits[i]]

----------------------------------------------------------------------------
(* Assignments *)

\* assign that leaves the decision level of the complement as it was
assign_one_sided(s, lit) ==
  LET comp_lit == get_comp_lit(lit) IN
  [s EXCEPT !.model[lit].truth_value = POSITIVE,
            !.model[lit].dec_level = s.dec_level,
            !.model[comp_lit].truth_value = NEGATIVE]

assign(s, lit) ==
  LET comp_lit == get_comp_lit(lit) IN
  [s EXCEPT !.model[lit].truth_value = POSITIVE,
            !.model[lit].dec_level = s.dec_level,
            !.model[comp_lit].truth_value = NEGATIVE,
            !.model[comp_lit].dec_level = s.dec_level]

\* unassign that resets the decision levels to 0 instead of DEC_MAX
unassign_to_zero(s, lit) ==
  [s EXCEPT !.model[lit].dec_level = 0,
            !.model[get_comp_lit(lit)].dec_level = 0]

unassign(s, lit) ==
  [s EXCEPT !.model[lit].dec_level = DEC_MAX,
            !.model[get_comp_lit(lit)].dec_level = DEC_MAX]

----------------------------------------------------------------------------
(* Trail *)

trail_queue_lit(s, lit, ass_type) ==
  LET comp_lit == get_comp_lit(lit) IN
  [s EXCEPT !.model[lit].ass_type = ass_type,
            !.model[lit].ass_status = PENDING,
            !.model[comp_lit].ass_type = ass_type,
            !.model[comp_lit].ass_status = PENDING,
            !.trail.sequence[s.trail.tail] = lit,
            !.trail.tail = @ + 1,
            \* the call, with the status it found and the slot it wrote
            !.log = Append(@, <<"enqueue", lit_to_DIMACS(lit), ass_type,
                                s.model[lit].ass_status, s.trail.tail>>)]

RECURSIVE backtrack_loop(_, _)
backtrack_loop(s, new_dec_level) ==
  IF /\ s.trail.head >= 0
     /\ s.model[s.trail.sequence[s.trail.head]].dec_level > new_dec_level
  THEN backtrack_loop(
         [unassign(s, s.trail.sequence[s.trail.head]) EXCEPT !.trail.head = @ - 1],
         new_dec_level)
  ELSE s

\* backtrack without `trail.tail = trail.head`
backtrack_keeps_tail(s, new_dec_level) ==
  LET t == backtrack_loop(s, new_dec_level) IN
  [t EXCEPT !.trail.head = t.trail.head + 1,
            !.dec_level = new_dec_level]

backtrack(s, new_dec_level) ==
  LET t == backtrack_loop(s, new_dec_level) IN
  [t EXCEPT !.trail.head = t.trail.head + 1,
            !.trail.tail = t.trail.head + 1,
            !.dec_level = new_dec_level]

----------------------------------------------------------------------------
(* Initialisation *)

\* what malloc may hand to CDCL_init in the fields it does not set: a truth
\* value that is POSITIVE, NEGATIVE or neither, and a decision level that is
\* zero or not
IndeterminateTruth == {POSITIVE, NEGATIVE, 0}
IndeterminateLevel == {0, NULL_DEC_LEVEL}
HeapImages == [Lits -> [truth_value : IndeterminateTruth,
                        dec_level : IndeterminateLevel]]

\* state of the solver after the header has been read
init_header(heap) ==
  [model |-> [l \in Lits |->
                [ass_status |-> AVAILABLE,
                 truth_value |-> heap[l].truth_value,
                 ass_type |-> Unwritten,
                 dec_level |-> heap[l].dec_level,
                 num_active |-> 0,
                 watched_lits |-> mutable_init]],
   cnf |-> [clauses |-> <<>>, size |-> 0],
   learned_cnf |-> mutable_init,
   learned_clause |-> clause_init(0),
   trail |-> [sequence |-> [i \in Lits |-> Unwritten], head |-> 0, tail |-> 0],
   dec_level |-> 0,
   state |-> "DECIDE",
   num_conflicts |-> 0,
   num_decisions |-> 0,
   num_unit_props |-> 0,
   log |-> <<>>,
   ub |-> FALSE]

RECURSIVE init_num_active(_, _, _)
init_num_active(s, lits, which_lit) ==
  IF which_lit > Len(lits) THEN s
  ELSE init_num_active(
         [s EXCEPT !.model[DIMACS_to_lit(lits[which_lit])].num_active = (@ + 1) % WordMod],
         lits, which_lit + 1)

\* stores one clause of width >= 2 and watches its first two literals
init_store(s, dimacs) ==
  LET width == Len(dimacs)
      clause == [lits |-> [k \in 0 .. (width - 1) |-> DIMACS_to_lit(dimacs[k + 1])],
                 width |-> width]
      s1 == init_num_active(s, dimacs, 1)
      which_clause == Len(s1.cnf.clauses) + 1
      s2 == [s1 EXCEPT !.cnf.clauses = Append(@, clause), !.cnf.size = @ + 1]
      w0 == get_comp_lit(clause.lits[0])
      s3 == [s2 EXCEPT !.model[w0].watched_lits = mutable_push(@, CnfPtr(which_clause))]
      w1 == get_comp_lit(clause.lits[1])
  IN [s3 EXCEPT !.model[w1].watched_lits = mutable_push(@, CnfPtr(which_clause))]

RECURSIVE init_clauses(_, _, _)
init_clauses(s, clauses, i) ==
  IF i > Len(clauses) THEN s
  ELSE LET width == Len(clauses[i]) IN
       IF width = 0
       THEN [s EXCEPT !.state = "UNSAT", !.log = Append(@, <<"UNSAT">>)]
       ELSE IF width = 1
       THEN init_clauses(
              [trail_queue_lit(s, DIMACS_to_lit(clauses[i][1]), PROP_ASS)
                 EXCEPT !.state = "PROPAGATE"],
              clauses, i + 1)
       ELSE init_clauses(init_store(s, clauses[i]), clauses, i + 1)

CDCL_init(in, heap) ==
  LET s == init_header(heap) IN
  IF Len(in.clauses) = 0
  THEN [s EXCEPT !.state = "SAT", !.log = Append(@, <<"SAT">>)]
  ELSE IF in.V = 0
  THEN [s EXCEPT !.state = "UNSAT", !.log = Append(@, <<"UNSAT">>)]
  ELSE init_clauses(s, in.clauses, 1)

----------------------------------------------------------------------------
(* Reports *)

CDCL_report_SAT(s) == [s EXCEPT !.state = "SAT", !.log = Append(@, <<"SAT">>)]

CDCL_report_UNSAT(s) == [s EXCEPT !.state = "UNSAT", !.log = Append(@, <<"UNSAT">>)]

----------------------------------------------------------------------------
(* Propagation: one pass of the outer loop of CDCL_prop, on the literal at  *)
(* the head of the trail                                                    *)

\* lits[which_lit]->num_active--, for every position of the clause
RECURSIVE dec_num_active(_, _, _, _)
dec_num_active(s, lits, width, which_lit) ==
  IF which_lit >= width THEN s
  ELSE dec_num_active(
         [s EXCEPT !.model[lits[which_lit]].num_active = USub(@, 1)],
         lits, width, which_lit + 1)

\* the clause is extinct: the active literal counters are decremented (the
\* caller nulls the slot of the list it is walking)
mark_extinct(s, ptr, lits, width) ==
  [dec_num_active(s, lits, width, 0) EXCEPT !.log = Append(@, <<"extinct", ptr>>)]

\* the candidate loop: the first position it stops at and why
\* ("extinct", "swap", or "none" when it runs to its end)
RECURSIVE find_candidate(_, _, _, _)
find_candidate(s, lits, width, which_lit) ==
  IF which_lit >= width - 2 THEN [kind |-> "none", at |-> which_lit]
  ELSE IF /\ s.model[lits[which_lit]].ass_status = DECEASED
          /\ s.model[lits[which_lit]].truth_value = POSITIVE
  THEN [kind |-> "extinct", at |-> which_lit]
  ELSE IF \/ s.model[lits[which_lit]].ass_status = PENDING
          \/ s.model[lits[which_lit]].ass_status = AVAILABLE
          \/ /\ s.model[lits[which_lit]].ass_status = ACTIVE
             /\ s.model[lits[which_lit]].truth_value = POSITIVE
  THEN [kind |-> "swap", at |-> which_lit]
  ELSE find_candidate(s, lits, width, which_lit + 1)

\* on conflict the remaining slots of the list are filled with the clause
\* in hand
RECURSIVE push_rest(_, _, _, _)
push_rest(new_watchers, clause, which_clause, num_clauses) ==
  IF which_clause >= num_clauses THEN new_watchers
  ELSE push_rest(mutable_push(new_watchers, clause), clause,
                 which_clause + 1, num_clauses)

\* the assignment records of the literals of a clause, as they are read
snapshot(s, lits) ==
  [k \in DOMAIN lits |-> [ass_status |-> s.model[lits[k]].ass_status,
                           truth_value |-> s.model[lits[k]].truth_value,
                           dec_level |-> s.model[lits[k]].dec_level]]

\* an eligible literal was found at position `at`: it is swapped with
\* lits[0] and the clause is pushed onto the list of its complement
swap_watcher(next, s, ptr, lits, at, propagator) ==
  LET lits2 == SwapLits(lits, 0, at)
      target == get_comp_lit(lits2[0])
      s1 == StoreLits(s, ptr, lits2)
  IN [next EXCEPT
        !.s = [s1 EXCEPT !.model[target].watched_lits = mutable_push(@, ptr),
                         \* the swap: the position chosen, of the literals
                         \* as the search found them
                         !.log = Append(@, <<"swap", ptr, at, lits,
                                             snapshot(s, lits)>>)],
        !.stale = @ \/ (target = propagator
                         /\ mutable_full(s1.model[target].watched_lits))]

\* what the propagator does with lits[1] of a unit clause
unit_outcome(s, lits) ==
  IF s.model[lits[1]].ass_status = AVAILABLE THEN "enqueue"
  ELSE IF s.model[lits[1]].truth_value = NEGATIVE THEN "conflict"
  ELSE "none"

\* the clause is unit on lits[1]; next.which_clause is the slot after the
\* clause's
unit_clause(next, s, ptr, lits, propagator, num_clauses) ==
  LET s1 == [s EXCEPT !.num_unit_props = (@ + 1) % WordMod,
                      !.log = Append(@, <<"unit", ptr, propagator, lits,
                                          snapshot(s, lits),
                                          unit_outcome(s, lits)>>)]
      pushed == mutable_push(next.new_watchers, ptr)
  IN
  IF s1.model[lits[1]].ass_status = AVAILABLE
  THEN [next EXCEPT !.s = trail_queue_lit(s1, lits[1], PROP_ASS),
                    !.new_watchers = pushed]
  ELSE IF s1.model[lits[1]].truth_value = NEGATIVE
  THEN [next EXCEPT !.s = s1,
                    !.new_watchers =
                       push_rest(pushed, ptr, next.which_clause, num_clauses),
                    !.which_clause = num_clauses,
                    !.exit = "conflict"]
  ELSE [next EXCEPT !.s = s1, !.new_watchers = pushed]

\* the body of the clause loop for data[which_clause]; L carries the solver
\* and the locals of CDCL_prop
visit_clause(L, propagator, num_clauses) ==
  LET ptr == L.data[L.which_clause + 1]
      next == [L EXCEPT !.which_clause = @ + 1]
  IN
  IF ptr = NULL THEN next
  ELSE
  LET \* data read after a realloc moved the list, or a clause read through
      \* a pointer to a dead stack frame
      ub == L.stale \/ ptr.region = "stack"
      clause == Deref(L.s, ptr)
      width == clause.width
      lits == IF clause.lits[0] # propagator
              THEN SwapLits(clause.lits, 0, 1) ELSE clause.lits
      s0 == [StoreLits(L.s, ptr, lits) EXCEPT !.ub = @ \/ ub]
      nulled == [L.data EXCEPT ![L.which_clause + 1] = NULL]
  IN
  IF s0.model[lits[1]].dec_level = 0
  THEN [next EXCEPT !.s = mark_extinct(s0, ptr, lits, width),
                    !.data = nulled,
                    !.exit = "break"]
  ELSE IF s0.model[lits[1]].ass_status = ACTIVE
  THEN [next EXCEPT !.s = s0,
                    !.new_watchers = mutable_push(@, ptr),
                    !.exit = "break"]
  ELSE
  LET found == find_candidate(s0, lits, width, 0) IN
  IF found.kind = "extinct"
  THEN [next EXCEPT !.s = mark_extinct(s0, ptr, lits, width),
                    !.data = nulled]
  ELSE IF found.kind = "swap"
  THEN swap_watcher(next, s0, ptr, lits, found.at, propagator)
  ELSE unit_clause(next, s0, ptr, lits, propagator, num_clauses)

RECURSIVE clause_loop(_, _, _)
clause_loop(L, propagator, num_clauses) ==
  IF L.exit # "run" \/ L.which_clause >= num_clauses THEN L
  ELSE clause_loop(visit_clause(L, propagator, num_clauses), propagator, num_clauses)

\* one pass of `while (trail.head != trail.tail)`; the caller has checked
\* the loop condition
prop_step(s) ==
  LET propagator == s.trail.sequence[s.trail.head]
      s0 == [assign(s, propagator)
               EXCEPT !.log = Append(@, <<"propagate", lit_to_DIMACS(propagator)>>)]
      num_clauses == s0.model[propagator].watched_lits.used
      L0 == [s |-> s0,
             data |-> s0.model[propagator].watched_lits.data,
             stale |-> FALSE,
             new_watchers |-> mutable_init,
             which_clause |-> 0,
             exit |-> "run"]
      L == clause_loop(L0, propagator, num_clauses)
      s1 == [L.s EXCEPT !.model[propagator].watched_lits = L.new_watchers]
  IN
  IF L.exit = "conflict"
  THEN [s1 EXCEPT !.state = "CONFLICT",
                  !.log = Append(@, <<"conflict", s1.dec_level>>)]
  ELSE [s1 EXCEPT !.trail.head = @ + 1]

\* CDCL_prop as the driver sees it, one pass at a time: the pass, and the
\* return of DECIDE once head has reached tail
CDCL_prop(s) ==
  IF s.trail.head = s.trail.tail THEN [s EXCEPT !.state = "DECIDE"]
  ELSE LET r == prop_step(s) IN
       IF r.state = "CONFLICT" THEN r
       ELSE IF r.trail.head = r.trail.tail THEN [r EXCEPT !.state = "DECIDE"]
       ELSE r

----------------------------------------------------------------------------
(* Decision *)

RECURSIVE decide_loop(_, _)
decide_loop(s, which_var) ==
  IF which_var >= num_vars THEN [s EXCEPT !.state = "SUCCESS"]
  ELSE IF s.model[which_var].ass_status = AVAILABLE
  THEN LET s1 == [s EXCEPT !.model[which_var].ass_type = DEC_ASS,
                           !.model[which_var + num_vars].ass_type = DEC_ASS]
           s2 == trail_queue_lit(s1, which_var, DEC_ASS)
       IN [s2 EXCEPT !.dec_level = (@ + 1) % WordMod,
                     !.num_decisions = (@ + 1) % WordMod,
                     !.log = Append(@, <<"decide", lit_to_DIMACS(which_var),
                                         (s2.dec_level + 1) % WordMod>>),
                     !.state = "PROPAGATE"]
  ELSE decide_loop(s, which_var + 1)

CDCL_decide(s) ==
  IF s.trail.head = num_vars THEN [s EXCEPT !.state = "SUCCESS"]
  ELSE decide_loop(s, 0)

----------------------------------------------------------------------------
(* Conflict repair *)

\* fills the learned clause from the decisions found in the table
RECURSIVE learn_loop(_, _)
learn_loop(s, which_var) ==
  IF which_var >= num_vars THEN s
  ELSE IF /\ s.model[which_var].ass_status # AVAILABLE
          /\ s.model[which_var].ass_type = DEC_ASS
  THEN LET at == USub(s.dec_level, s.model[which_var].dec_level)
           lit == IF s.model[which_var].truth_value = POSITIVE
                  THEN get_comp_lit(which_var) ELSE which_var
       IN IF at < s.learned_clause.width
          THEN learn_loop([s EXCEPT !.learned_clause.lits[at] = lit], which_var + 1)
          \* a write past the end of the literal array
          ELSE learn_loop([s EXCEPT !.ub = TRUE], which_var + 1)
  ELSE learn_loop(s, which_var + 1)

learn_clause(s) ==
  LET s1 == learn_loop([s EXCEPT !.learned_clause = clause_init(s.dec_level)], 0)
      lits == s1.learned_clause.lits
  IN
  \* a literal position that the loop left unwritten is read here
  IF lits[0] = Unwritten \/ lits[1] = Unwritten THEN [s1 EXCEPT !.ub = TRUE]
  ELSE
  LET w0 == get_comp_lit(lits[0])
      s2 == [s1 EXCEPT !.model[w0].watched_lits = mutable_push(@, StackPtr)]
      w1 == get_comp_lit(lits[1])
      s3 == [s2 EXCEPT !.model[w1].watched_lits = mutable_push(@, StackPtr)]
  IN [s3 EXCEPT !.learned_cnf = mutable_push(@, StackPtr),
                 !.log = Append(@, <<"learn", s.dec_level, lits>>)]

\* the repair up to and including its call of backtrack
repair_backtrack(s) ==
  LET s1 == IF s.dec_level # 1 THEN learn_clause(s) ELSE s
  IN backtrack(s1, USub(s1.dec_level, 1))

CDCL_repair_conflict(s) ==
  LET s0 == [s EXCEPT !.num_conflicts = (@ + 1) % WordMod] IN
  IF s0.dec_level = 0 THEN CDCL_report_UNSAT(s0)
  ELSE
  LET s2 == repair_backtrack(s0)
      flip == get_comp_lit(s2.trail.sequence[s2.trail.head])
      s3 == trail_queue_lit(s2, flip, CON_ASS)
  IN [s3 EXCEPT !.log = Append(@, <<"flip", lit_to_DIMACS(flip), s3.dec_level>>)]

----------------------------------------------------------------------------
(* The search driver: the loop over {DECIDE, PROPAGATE, CONFLICT} that calls *)
(* the three functions above                                                *)

drive(s) ==
  IF s.state = "DECIDE"
  THEN LET r == CDCL_decide(s) IN
       IF r.state = "SUCCESS" THEN CDCL_report_SAT(r) ELSE r
  ELSE IF s.state = "PROPAGATE" THEN CDCL_prop(s)
  ELSE IF s.state = "CONFLICT"
  THEN LET r == CDCL_repair_conflict(s) IN
       IF r.state = "UNSAT" THEN r ELSE [r EXCEPT !.state = "PROPAGATE"]
  ELSE s

----------------------------------------------------------------------------
(* Inputs *)

Formula(V, clauses) == [V |-> V, clauses |-> clauses]

S1 == Formula(1, << <<1>> >>)
S2 == Formula(1, << <<1>>, <<-1>> >>)
S3 == Formula(3, << <<1>>, <<-1, 2>>, <<-2, 3>> >>)
S4 == Formula(2, << <<1, 2>>, <<-1, 2>>, <<1, -2>> >>)
S5 == Formula(2, << <<1, 2>>, <<-1, 2>>, <<1, -2>>, <<-1, -2>> >>)
S6 == Formula(3, << <<1, 2>>, <<-1, 3>>, <<-2, -3>> >>)

\* one decision, then a conflict at level 2: a clause is learned
L2 == Formula(2, << <<-2, 1>> >>)
\* two unit clauses and a clause that both satisfy
U0 == Formula(2, << <<1>>, <<2>>, <<2, -1>> >>)
\* a clause of width 3 followed, in the same watch list, by another clause
F3 == Formula(3, << <<2, -1, 3>>, <<-1, 3>> >>)

\* two unit clauses, and two clauses watched by the second unit literal
P3 == Formula(2, << <<1>>, <<2>>, <<-2, 1>>, <<-2, -1>> >>)
\* two conflicts at level 2: two clauses are learned, one after the other
L3 == Formula(3, << <<-2, 1>>, <<-3, 1>> >>)

\* the same unit clause twice, and a variable in no clause
D2 == Formula(2, << <<1>>, <<1>> >>)
\* a unit propagation at level 1, undone by the repair of a conflict
B2 == Formula(2, << <<2, -1>>, <<-2, 1>> >>)

Inputs == {S1, S2, S3, S4, S5, S6, L2, U0, F3, P3, L3, D2, B2}

----------------------------------------------------------------------------
(* The state machine *)

Cur ==
  [model |-> model, cnf |-> cnf, learned_cnf |-> learned_cnf,
   learned_clause |-> learned_clause, trail |-> trail, dec_level |-> dec_level,
   state |-> state, num_conflicts |-> num_conflicts,
   num_decisions |-> num_decisions, num_unit_props |-> num_unit_props,
   log |-> log, ub |-> FALSE]

Is(s) ==
  /\ model = s.model
  /\ cnf = s.cnf
  /\ learned_cnf = s.learned_cnf
  /\ learned_clause = s.learned_clause
  /\ trail = s.trail
  /\ dec_level = s.dec_level
  /\ state = s.state
  /\ num_conflicts = s.num_conflicts
  /\ num_decisions = s.num_decisions
  /\ num_unit_props = s.num_unit_props
  /\ log = s.log

Becomes(s) ==
  /\ model' = s.model
  /\ cnf' = s.cnf
  /\ learned_cnf' = s.learned_cnf
  /\ learned_clause' = s.learned_clause
  /\ trail' = s.trail
  /\ dec_level' = s.dec_level
  /\ state' = s.state
  /\ num_conflicts' = s.num_conflicts
  /\ num_decisions' = s.num_decisions
  /\ num_unit_props' = s.num_unit_props
  /\ log' = s.log
  /\ UNCHANGED <<input, num_vars, conv>>

\* the outcome of a step: what the code computes, or, when the step read
\* memory it had no right to read, possibly a fault instead
Outcome(r) ==
  \/ Becomes(r)
  \/ /\ r.ub
     /\ Becomes([r EXCEPT !.state = "FAULT"])

NoConv == [op |-> "none", arg |-> 0, res |-> 0]

Init ==
  \E in \in Inputs :
    /\ input = in
    /\ num_vars = in.V
    /\ conv = NoConv
    /\ \E heap \in HeapImages : \E s \in {CDCL_init(in, heap)} : Is(s)

Decide == state = "DECIDE" /\ \E r \in {drive(Cur)} : Outcome(r)

Propagate == state = "PROPAGATE" /\ \E r \in {drive(Cur)} : Outcome(r)

Repair == state = "CONFLICT" /\ \E r \in {drive(Cur)} : Outcome(r)

Next == Decide \/ Propagate \/ Repair

Spec == Init /\ [][Next]_vars

----------------------------------------------------------------------------
(* The conversion harness: the three literal functions applied to every     *)
(* literal of a table of 1..MaxV variables                                  *)

MaxV == 6

DimacsLits == {l \in (-num_vars) .. num_vars : l # 0}

ZeroHeap == [l \in Lits |-> [truth_value |-> 0, dec_level |-> 0]]

InitConv ==
  \E V \in 1 .. MaxV :
    /\ input = Formula(V, <<>>)
    /\ num_vars = V
    /\ conv = NoConv
    /\ \E s \in {CDCL_init(Formula(V, <<>>), ZeroHeap)} : Is(s)

Converted(op, arg, res) ==
  /\ conv' = [op |-> op, arg |-> arg, res |-> res]
  /\ UNCHANGED <<input, num_vars, model, cnf, learned_cnf, learned_clause, trail,
                 dec_level, state, num_conflicts, num_decisions, num_unit_props,
                 log>>

ToLit == \E l \in DimacsLits : Converted("DIMACS_to_lit", l, DIMACS_to_lit(l))

ToDimacs == \E x \in Lits : Converted("lit_to_DIMACS", x, lit_to_DIMACS(x))

Complement == \E x \in Lits : Converted("get_comp_lit", x, get_comp_lit(x))

NextConv == ToLit \/ ToDimacs \/ Complement

SpecConv == InitConv /\ [][NextConv]_vars

----------------------------------------------------------------------------
(* Properties *)

Done == state \in {"SAT", "UNSAT"}

Running == state \in {"DECIDE", "PROPAGATE", "CONFLICT"}

TruthOf(dimacs) == model[DIMACS_to_lit(dimacs)].truth_value

\* satisfiability of a formula, by enumeration of the assignments
Holds(a, dimacs) == IF dimacs > 0 THEN a[dimacs] ELSE ~a[-dimacs]

Satisfies(a, in) ==
  \A i \in 1 .. Len(in.clauses) :
    \E j \in 1 .. Len(in.clauses[i]) : Holds(a, in.clauses[i][j])

Satisfiable(in) == \E a \in [1 .. in.V -> BOOLEAN] : Satisfies(a, in)

\* C1: whenever the solver reports SAT, every input clause, unit clauses
\* included, contains a literal whose truth value in the final assignment
\* table is POSITIVE.
C1_SatAssignmentSatisfiesInput ==
  state = "SAT" =>
    \A i \in 1 .. Len(input.clauses) :
      \E j \in 1 .. Len(input.clauses[i]) :
        TruthOf(input.clauses[i][j]) = POSITIVE

\* C2: whenever the solver reports UNSAT, no truth assignment satisfies all
\* the input clauses.
C2_UnsatMeansUnsatisfiable == state = "UNSAT" => ~Satisfiable(input)

\* C3: the run ends in a report of SAT or UNSAT (no state is reached in which
\* the loop has stopped without a report), and the number of decisions never
\* exceeds 2^V.
C3_HaltsWithReportWithinBound ==
  /\ Done \/ Running
  /\ num_decisions <= 2 ^ num_vars

\* the run from the same input on a table whose unset fields are all zero
RECURSIVE Solve(_)
Solve(s) == IF s.state \in {"DECIDE", "PROPAGATE", "CONFLICT"} THEN Solve(drive(s)) ELSE s

IsDecision(e) == e[1] = "decide"

DecisionsOf(l) == SelectSeq(l, IsDecision)

\* C4: two runs on the same formula make the same decisions in the same
\* order and report the same result, whatever the assignment table held
\* before CDCL_init: every finished run agrees with the run from the zeroed
\* table.
C4_RunIndependentOfTableContents ==
  Done =>
    \A ref \in {Solve(CDCL_init(input, ZeroHeap))} :
      /\ state = ref.state
      /\ DecisionsOf(log) = DecisionsOf(ref.log)

\* a step of the search loop has been taken
Started == \E i \in 1 .. Len(log) : log[i][1] # "enqueue"

\* C5: on scenario S2, (1) and (-1) over one variable, both literals are
\* enqueued at level 0, the initial state is PROPAGATE, no decision is made,
\* and the run ends in UNSAT through a conflict found at level 0.
C5_ComplementaryUnitsUnsat ==
  input = S2 =>
    /\ ~Started =>
          /\ state = "PROPAGATE"
          /\ dec_level = 0
          /\ trail.head = 0 /\ trail.tail = 2
          /\ trail.sequence[0] = DIMACS_to_lit(1)
          /\ trail.sequence[1] = DIMACS_to_lit(-1)
    /\ num_decisions = 0
    /\ ~Running =>
          /\ state = "UNSAT"
          /\ \E i \in 1 .. Len(log) : log[i] = <<"conflict", 0>>

\* C6: on scenario S3, (1)(-1 2)(-2 3), the run ends in SAT with v1, v2 and
\* v3 true, zero decisions and three unit propagations counted.
C6_UnitChainForcesAll ==
  (input = S3 /\ ~Running) =>
    /\ state = "SAT"
    /\ \A v \in 1 .. 3 : TruthOf(v) = POSITIVE
    /\ num_decisions = 0
    /\ num_unit_props = 3

\* the events of a run with the passes of one CDCL_prop call folded into one
\* "propagate" and the extinctions, enqueue calls, learned clauses, swaps and
\* unit clauses left out
RECURSIVE Events(_, _)
Events(l, i) ==
  IF i > Len(l) THEN <<>>
  ELSE IF l[i][1] \in {"extinct", "enqueue", "learn", "swap", "unit"}
  THEN Events(l, i + 1)
  ELSE IF l[i][1] = "propagate"
  THEN LET rest == Events(l, i + 1) IN
       IF rest # <<>> /\ rest[1] = <<"propagate">> THEN rest
       ELSE <<(<<"propagate">>)>> \o rest
  ELSE <<l[i]>> \o Events(l, i + 1)

S5Events ==
  << <<"decide", 1, 1>>, <<"propagate">>, <<"conflict", 1>>, <<"flip", -1, 0>>,
     <<"propagate">>, <<"conflict", 0>>, <<"UNSAT">> >>

\* C7: on scenario S5 the events are, in order: decide v1 at level 1,
\* propagate, conflict at level 1, flip to -v1 at level 0, propagate,
\* conflict at level 0, report UNSAT; SAT is never reported.
C7_S5EventOrder ==
  input = S5 =>
    /\ state # "SAT"
    /\ ~Running => Events(log, 1) = S5Events

\* C8: lit_to_DIMACS inverts DIMACS_to_lit on 1 <= |l| <= V and DIMACS_to_lit
\* inverts lit_to_DIMACS on 0..2V-1; negating the DIMACS literal is the
\* internal complement; get_comp_lit is an involution without fixed points.
C8_LiteralRoundTrip ==
  /\ conv.op = "DIMACS_to_lit" =>
        /\ conv.res \in Lits
        /\ lit_to_DIMACS(conv.res) = conv.arg
        /\ DIMACS_to_lit(-conv.arg) = get_comp_lit(conv.res)
  /\ conv.op = "lit_to_DIMACS" =>
        /\ conv.res \in DimacsLits
        /\ DIMACS_to_lit(conv.res) = conv.arg
  /\ conv.op = "get_comp_lit" =>
        /\ conv.res \in Lits
        /\ conv.res # conv.arg
        /\ get_comp_lit(conv.res) = conv.arg

\* a negative DIMACS literal of the largest table has been converted
C8_NegativeLiteralConverted ==
  /\ conv.op = "DIMACS_to_lit"
  /\ conv.arg = -num_vars
  /\ num_vars = MaxV
  /\ conv.res = 2 * num_vars - 1

\* the clauses of the store, by pointer, and those the propagator has
\* marked extinct
Pointers ==
  {CnfPtr(i) : i \in 1 .. Len(cnf.clauses)}
    \cup (IF learned_cnf.used > 0 THEN {StackPtr} ELSE {})

Extinct == {log[i][2] : i \in {j \in 1 .. Len(log) : log[j][1] = "extinct"}}

Count(seq, x) == Cardinality({i \in 1 .. Len(seq) : seq[i] = x})

\* C9: after every transition, every non-extinct clause C is present exactly
\* once in the watch list of complement(C[0]), exactly once in that of
\* complement(C[1]), and in no other watch list.
C9_WatchCoverage ==
  \A p \in Pointers \ Extinct : \A c \in {Deref(Cur, p)} : \A l \in Lits :
    Count(model[l].watched_lits.data, p) =
      IF l \in {get_comp_lit(c.lits[0]), get_comp_lit(c.lits[1])} THEN 1 ELSE 0

\* the literal's variable has been consumed by the propagator and is still
\* assigned
ActiveLit(l) ==
  /\ \E i \in 0 .. (trail.head - 1) : trail.sequence[i] \in {l, get_comp_lit(l)}
  /\ model[l].dec_level # DEC_MAX

FalseLit(l) == model[l].truth_value = NEGATIVE

\* C10: whenever the propagator has returned DECIDE, no non-extinct stored
\* clause has both watched literals C[0] and C[1] ACTIVE and false.
C10_NoFalseFalseWatchAtRest ==
  state = "DECIDE" =>
    \A p \in Pointers \ Extinct : \A c \in {Deref(Cur, p)} :
      ~(/\ ActiveLit(c.lits[0]) /\ FalseLit(c.lits[0])
        /\ ActiveLit(c.lits[1]) /\ FalseLit(c.lits[1]))

----------------------------------------------------------------------------
(* Assignment records, trail, counters, backtracking and conflict repair *)

\* the positive literals, one per variable
PosLits == 0 .. (num_vars - 1)

VarOf(l) == IF l < num_vars THEN l ELSE get_comp_lit(l)

\* the propagator has consumed a trail entry of the literal's variable, that
\* is, assign has run on it
Propagated(l) ==
  \E i \in 1 .. Len(log) :
    /\ log[i][1] = "propagate"
    /\ VarOf(DIMACS_to_lit(log[i][2])) = VarOf(l)

OppositeAndLevel(v) ==
  /\ {model[v].truth_value, model[get_comp_lit(v)].truth_value} = {POSITIVE, NEGATIVE}
  /\ model[v].dec_level = model[get_comp_lit(v)].dec_level

C12_TrailLevelsNonDecreasing ==
  \A i, j \in 0 .. (trail.tail - 1) :
    i < j => model[trail.sequence[i]].dec_level <= model[trail.sequence[j]].dec_level

Contains(c, l) == \E k \in 0 .. (c.width - 1) : c.lits[k] = l

\* C13: after every transition, num_active of every literal is the number of
\* non-extinct stored clauses, original and learned, that contain it; it
\* never exceeds the number of stored clauses (no underflow), and no clause
\* is marked extinct more than once.
C13_NumActiveAccurate ==
  /\ \A l \in Lits :
       /\ model[l].num_active =
            Cardinality({p \in Pointers \ Extinct : Contains(Deref(Cur, p), l)})
       /\ model[l].num_active <= Len(cnf.clauses) + learned_cnf.used
  /\ \A p \in Pointers :
       Cardinality({i \in 1 .. Len(log) : log[i] = <<"extinct", p>>}) <= 1

\* backtrack's first read, *(trail.head), is of a slot that has been written
Readable(s) ==
  \/ s.trail.head < 0
  \/ /\ s.trail.head \in DOMAIN s.trail.sequence
     /\ s.trail.sequence[s.trail.head] # Unwritten

SameTrailAndRecords(a, b) ==
  /\ a.trail.head = b.trail.head
  /\ a.trail.tail = b.trail.tail
  /\ a.dec_level = b.dec_level
  /\ \A l \in Lits :
       /\ a.model[l].ass_status = b.model[l].ass_status
       /\ a.model[l].ass_type = b.model[l].ass_type
       /\ a.model[l].truth_value = b.model[l].truth_value
       /\ a.model[l].dec_level = b.model[l].dec_level

C15_LevelZeroDeceased ==
  \A l \in Lits :
    (Propagated(l) /\ model[l].dec_level = 0) => model[l].ass_status = DECEASED

\* C16: when the propagator has returned DECIDE, head = tail and every trail
\* entry in [0, head) has status ACTIVE on both records of its variable.
C16_ConsumedEntriesActive ==
  state = "DECIDE" =>
    /\ trail.head = trail.tail
    /\ \A i \in 0 .. (trail.head - 1) :
         \A l \in {trail.sequence[i], get_comp_lit(trail.sequence[i])} :
           model[l].ass_status = ACTIVE

\* C17: every call of trail_queue_lit, from CDCL_init, CDCL_decide, CDCL_prop
\* and CDCL_repair_conflict, found the status of its literal AVAILABLE.
C17_EnqueueOnlyAvailable ==
  \A i \in 1 .. Len(log) : log[i][1] = "enqueue" => log[i][4] = AVAILABLE

OnTrail(s, l) ==
  \E i \in 0 .. (s.trail.tail - 1) : VarOf(s.trail.sequence[i]) = VarOf(l)

Record(r) ==
  [ass_status |-> r.ass_status, ass_type |-> r.ass_type,
   truth_value |-> r.truth_value, dec_level |-> r.dec_level]

\* C18: after the backtrack of a conflict repair, every variable that is no
\* longer on the trail in [0, tail) has decision level DEC_MAX and status
\* AVAILABLE on both records, the records of the variables still on the
\* trail are unchanged, tail = head and the current level is the new level.
C18_BacktrackRestoresAvailable ==
  (state = "CONFLICT" /\ dec_level >= 1) =>
    \A after \in {repair_backtrack(Cur)} :
      /\ \A l \in Lits :
           (OnTrail(Cur, l) /\ ~OnTrail(after, l)) =>
             /\ after.model[l].dec_level = DEC_MAX
             /\ after.model[l].ass_status = AVAILABLE
      /\ \A l \in Lits :
           OnTrail(after, l) => Record(after.model[l]) = Record(model[l])
      /\ after.trail.tail = after.trail.head
      /\ after.dec_level = dec_level - 1

LearnEvents == {i \in 1 .. Len(log) : log[i][1] = "learn"}

\* the literal decided at level L, by the last decision of that level before
\* event i
DecisionAt(i, L) ==
  LET at == {j \in 1 .. (i - 1) : log[j][1] = "decide" /\ log[j][3] = L}
      last == CHOOSE j \in at : \A k \in at : k <= j
  IN log[last][2]

Ordinal(i) == Cardinality({j \in LearnEvents : j <= i})

\* C19: every conflict at level d >= 2, and no conflict at level 1, appends
\* one clause to the learned store; the clause has width d, its position
\* d - L holds the negation of the decision of level L, it is in the watch
\* lists of the complements of its positions 0 and 1 when the repair returns,
\* and it holds the same literals for the rest of the run.
C19_LearnedClauseKept ==
  /\ learned_cnf.used = Cardinality(LearnEvents)
  /\ state # "CONFLICT" =>
       Cardinality(LearnEvents) =
         Cardinality({i \in 1 .. Len(log) : log[i][1] = "conflict" /\ log[i][2] >= 2})
  /\ \A i \in LearnEvents : \A d \in {log[i][2]} : \A lits \in {log[i][3]} :
       /\ d >= 2
       /\ DOMAIN lits = 0 .. (d - 1)
       /\ \A L \in 1 .. d : lits[d - L] = DIMACS_to_lit(-DecisionAt(i, L))
       /\ \A c \in {Deref(Cur, learned_cnf.data[Ordinal(i)])} :
            {c.lits[k] : k \in DOMAIN c.lits} = {lits[k] : k \in DOMAIN lits}
  /\ (Len(log) >= 3 /\ log[Len(log) - 2][1] = "learn") =>
       \A lits \in {log[Len(log) - 2][3]} : \A k \in {0, 1} :
         Count(model[get_comp_lit(lits[k])].watched_lits.data, StackPtr) >= 1

Repaired == log # <<>> /\ log[Len(log)][1] = "flip"

LastConflictLevel ==
  LET at == {j \in 1 .. Len(log) : log[j][1] = "conflict"}
      last == CHOOSE j \in at : \A k \in at : k <= j
  IN log[last][2]

\* the trail slot the decision of the literal was written to
DecisionSlot(dimacs) ==
  LET at == {j \in 1 .. Len(log) : /\ log[j][1] = "enqueue"
                                   /\ log[j][2] = dimacs
                                   /\ log[j][3] = DEC_ASS}
  IN log[CHOOSE j \in at : TRUE][5]

----------------------------------------------------------------------------
(* Decision and the propagator's treatment of one clause *)

\* the lowest-indexed variable with no entry on the trail
LowestUnassigned ==
  CHOOSE v \in PosLits :
    /\ ~OnTrail(Cur, v)
    /\ \A w \in PosLits : ~OnTrail(Cur, w) => v <= w

\* C21: in state DECIDE head = tail; if some variable is unassigned (has no
\* trail entry) CDCL_decide enqueues the positive literal of the lowest such
\* variable as a decision, raises the level by 1 and returns PROPAGATE,
\* otherwise it returns SUCCESS; and whenever SAT is reported every variable
\* is on the trail with a truth value and a decision level.
C21_DecideLowestUnassigned ==
  /\ state = "DECIDE" =>
       /\ trail.head = trail.tail
       /\ \A r \in {CDCL_decide(Cur)} :
            IF \E v \in PosLits : ~OnTrail(Cur, v)
            THEN /\ r.state = "PROPAGATE"
                 /\ r.trail.tail = trail.tail + 1
                 /\ r.trail.sequence[trail.tail] = LowestUnassigned
                 /\ r.model[LowestUnassigned].ass_type = DEC_ASS
                 /\ r.dec_level = dec_level + 1
            ELSE r.state = "SUCCESS"
  /\ state = "SAT" =>
       \A v \in PosLits :
         /\ OnTrail(Cur, v)
         /\ model[v].truth_value \in {POSITIVE, NEGATIVE}
         /\ model[v].dec_level # DEC_MAX

\* C22: every clause the propagator has marked extinct contains a literal
\* that is assigned true at decision level 0, in the state where it is marked
\* and in every later state.
C22_ExtinctMeansSatisfiedAtLevelZero ==
  \A p \in Extinct :
    \E k \in DOMAIN Deref(Cur, p).lits : \A lit \in {Deref(Cur, p).lits[k]} :
      /\ Propagated(lit)
      /\ model[lit].truth_value = POSITIVE
      /\ model[lit].dec_level = 0

\* the number of watch-list slots, over the lists of the given literals,
\* that hold the clause
Occurrences(s, ptr, lits) ==
  Cardinality(UNION {{<<l, i>> : i \in {j \in 1 .. Len(s.model[l].watched_lits.data) :
                                          s.model[l].watched_lits.data[j] = ptr}} :
                     l \in lits})

\* the extinctions of the clause that the step to s has added
NewExtinctions(s, ptr) ==
  Cardinality({i \in (Len(log) + 1) .. Len(s.log) : s.log[i] = <<"extinct", ptr>>})

RECURSIVE IsSubseq(_, _)
IsSubseq(a, b) ==
  IF a = <<>> THEN TRUE
  ELSE IF b = <<>> THEN FALSE
  ELSE IF Head(a) = Head(b) THEN IsSubseq(Tail(a), Tail(b))
  ELSE IsSubseq(a, Tail(b))

\* C23: in one propagator step on the literal at head, every entry of its
\* watch list ends in exactly one place: kept in the replacement list, moved
\* to the watch list of another literal, or extinct; and the replacement list
\* holds the kept entries in the order of the old list, so that no clause is
\* dropped from or duplicated in the list, also when the step ends in
\* CONFLICT.
C23_StepKeepsEveryWatchedClause ==
  (state = "PROPAGATE" /\ trail.head # trail.tail) =>
    \A p \in {trail.sequence[trail.head]} : \A r \in {prop_step(Cur)} :
      \A W \in {model[p].watched_lits.data} :
        /\ \A n \in 1 .. Len(W) : \A ptr \in {W[n]} :
             Count(W, ptr) =
               Count(r.model[p].watched_lits.data, ptr)
                 + (Occurrences(r, ptr, Lits \ {p}) - Occurrences(Cur, ptr, Lits \ {p}))
                 + NewExtinctions(r, ptr)
        /\ IsSubseq(r.model[p].watched_lits.data, W)

PropagatedBefore(i, l) ==
  \E j \in 1 .. (i - 1) :
    /\ log[j][1] = "propagate"
    /\ VarOf(DIMACS_to_lit(log[j][2])) = VarOf(l)

\* the literal was assigned false when event i read its record
FalseWhenRead(i, l, rec) ==
  /\ PropagatedBefore(i, l)
  /\ rec.truth_value = NEGATIVE
  /\ rec.dec_level # DEC_MAX

Swaps == {i \in 1 .. Len(log) : log[i][1] = "swap"}

\* C24: every replacement watcher the propagator swaps into position 0 comes
\* from a position in 2..width-1 (so never from a clause of width 2), and is
\* not a false literal.
C24_ReplacementFromTail ==
  \A i \in Swaps : \A at \in {log[i][3]} : \A lits \in {log[i][4]} :
    /\ at >= 2
    /\ at \in DOMAIN lits
    /\ ~FalseWhenRead(i, lits[at], log[i][5][at])

Units == {i \in 1 .. Len(log) : log[i][1] = "unit"}

\* C25: whenever the propagator classifies a clause as unit, position 0 holds
\* the complement of the literal in propagation, every literal other than
\* position 1 is false, position 1 is enqueued exactly when its status is
\* AVAILABLE, and CONFLICT is returned exactly when position 1 is false.
C25_UnitClassification ==
  \A i \in Units : \A l \in {log[i][3]} : \A lits \in {log[i][4]} :
    \A recs \in {log[i][5]} : \A outcome \in {log[i][6]} :
      /\ lits[0] = get_comp_lit(l)
      /\ \A k \in DOMAIN lits : k # 1 => FalseWhenRead(i, lits[k], recs[k])
      /\ outcome = "enqueue" <=> recs[1].ass_status = AVAILABLE
      /\ outcome = "conflict" <=> FalseWhenRead(i, lits[1], recs[1])

====
